---- MODULE Spec2Model ----
(***************************************************************************)
(* Model of the capture -> resample -> buffer -> paced-delivery pipeline   *)
(* and its session state machine in ui/src/App.tsx.                        *)
(*                                                                         *)
(* JavaScript runs the component's handlers on one event-loop thread: a    *)
(* handler runs without interruption up to its next await on a network     *)
(* call, on getUserMedia or on AudioContext.close().  Every action below   *)
(* is one such uninterrupted run.  An await on a promise that is already   *)
(* settled resumes in a microtask, before any other event is dispatched,   *)
(* so it does not end an action.  React state set by a handler is taken as *)
(* rendered before the next click is dispatched.                           *)
(***************************************************************************)
EXTENDS Integers, Sequences, FiniteSets, TLC

\* ---------------------------------------------------------------- bounds
MaxStarts == 2      \* handleStart invocations that pass the isRecording guard
MaxBlocks == 4      \* capture callbacks that append audio
MaxLen    == 8      \* longest short input block given to resampleLinear alone

\* ------------------------------------------------------- program constants
TARGET_SR == 16000
CHUNK_MS  == 500
BlockSize == 4096
\* Sample rates an AudioContext may report (audioCtx.sampleRate).
SampleRates == {16000, 48000}

Null == 0

\* Math.round for a non-negative quotient num/den: floor(num/den + 1/2).
MathRound(num, den) == (2 * num + den) \div (2 * den)

\* const chunkSamples = Math.round(TARGET_SR * (CHUNK_MS / 1000))
chunkSamples == MathRound(TARGET_SR * CHUNK_MS, 1000)

Max(a, b) == IF a >= b THEN a ELSE b

Min(a, b) == IF a <= b THEN a ELSE b

\* outLen computed with Math.floor in place of Math.round.
resampleLinearLenFloor(n, srcSr, dstSr) ==
    IF srcSr = dstSr THEN n
    ELSE Max(0, (n * dstSr) \div srcSr)

\* Length of resampleLinear(input, srcSr, dstSr) for an input of n samples.
resampleLinearLen(n, srcSr, dstSr) ==
    IF srcSr = dstSr THEN n
    ELSE Max(0, MathRound(n * dstSr, srcSr))

\* resampleLinear: the input itself when the rates are equal, else outLen
\* linearly interpolated samples.  x = i / ratio is i*srcSr/dstSr, so
\* x0 = floor(x) and t = x - x0 = ((i*srcSr) mod dstSr) / dstSr.  Sample
\* values are multiples of dstSr, which keeps input[x0]*(1-t) + input[x1]*t
\* an integer.  Sequences are indexed from 1, the arrays from 0.
resampleLinear(input, srcSr, dstSr) ==
    IF srcSr = dstSr THEN input
    ELSE LET outLen == resampleLinearLen(Len(input), srcSr, dstSr)
         IN  [k \in 1 .. outLen |->
                LET i == k - 1
                    x0 == (i * srcSr) \div dstSr
                    x1 == Min(x0 + 1, Len(input) - 1)
                    tn == (i * srcSr) % dstSr
                IN  (input[x0 + 1] * (dstSr - tn) + input[x1 + 1] * tn) \div dstSr]

\* ------------------------------------------------------------------ state
VARIABLES
    isRecording,      \* React state
    transcript,       \* React state: <<>> is '', else the response it came from
    language,         \* React state: <<>> is '', else the response it came from
    status,           \* React state: "idle" | "recording" | "error"
    errorMsg,         \* React state: "" or the prefix of the message
    sessionIdRef,     \* Null or a session id
    audioContextRef,  \* Null or the capture pipeline whose AudioContext it holds
    processorRef,     \* Null or the capture pipeline whose processor it holds
    sourceRef,        \* Null or the capture pipeline whose source node it holds
    mediaStreamRef,   \* Null or the capture pipeline whose MediaStream it holds
    bufferRef,        \* [off, len]: samples off .. off+len-1 of the capture stream
    pushingRef,       \* single-flight flag
    recordingRef,     \* recording flag
    pipes,            \* the capture objects created by each handleStart
    starts,           \* handleStart invocations: where each one is
    stops,            \* handleStop invocations: where each one is
    pumps,            \* suspended pump() loops: the index in pushLog each awaits
    nStarts,          \* handleStart invocations so far
    nStops,           \* handleStop invocations so far
    nBlocks,          \* capture callbacks that appended so far
    pushLog,          \* history: pushChunk requests in the order issued
    extractLog,       \* history: chunks in the order extracted from the buffer
    finishLog,        \* history: finishSession requests in the order issued
    recT,             \* history: samples appended since the last start() reset
    recM,             \* history: chunks extracted since the last start() reset
    finalResult,      \* history: result of the last stop() that completed with a
                      \* successful finishSession and no start() since; else <<>>
    resInput,         \* resampleLinear called alone: its input and source rate
    resOutput         \* resampleLinear called alone: whether called, and its result

reactVars == <<isRecording, transcript, language, status, errorMsg>>
captureRefs == <<audioContextRef, processorRef, sourceRef, mediaStreamRef>>
refVars == <<sessionIdRef, bufferRef, pushingRef, recordingRef>>
taskVars == <<starts, stops, pumps, nStarts, nStops>>
histVars == <<nBlocks, pushLog, extractLog, finishLog, recT, recM, finalResult>>
appVars == <<reactVars, captureRefs, refVars, pipes, taskVars, histVars>>
pureVars == <<resInput, resOutput>>
vars == <<appVars, pureVars>>

StartIds == 1 .. MaxStarts
\* handleStop passes its guard only after a handleStart set isRecording, so
\* there are never more of them than handleStart invocations.
StopIds  == 1 .. MaxStarts

EmptyText == <<>>
EmptyBuffer(off) == [off |-> off, len |-> 0]

NoPipe == [ctx |-> "none", handler |-> FALSE, tracks |-> FALSE, rate |-> 0]

NoInput == [input |-> <<>>, srcSr |-> TARGET_SR]
NoOutput == [done |-> FALSE, out |-> <<>>]

InitApp ==
    /\ isRecording = FALSE
    /\ transcript = EmptyText
    /\ language = EmptyText
    /\ status = "idle"
    /\ errorMsg = ""
    /\ sessionIdRef = Null
    /\ audioContextRef = Null
    /\ processorRef = Null
    /\ sourceRef = Null
    /\ mediaStreamRef = Null
    /\ bufferRef = EmptyBuffer(0)
    /\ pushingRef = FALSE
    /\ recordingRef = FALSE
    /\ pipes = [p \in StartIds |-> NoPipe]
    /\ starts = [i \in StartIds |-> [pc |-> "idle", ctx |-> Null]]
    /\ stops = [j \in StopIds |-> [pc |-> "idle", ctx |-> Null, sid |-> Null,
                                   epoch |-> 0, from |-> "idle"]]
    /\ pumps = {}
    /\ nStarts = 0
    /\ nStops = 0
    /\ nBlocks = 0
    /\ pushLog = <<>>
    /\ extractLog = <<>>
    /\ finishLog = <<>>
    /\ recT = 0
    /\ recM = 0
    /\ finalResult = EmptyText

Init ==
    /\ InitApp
    /\ resInput = NoInput
    /\ resOutput = NoOutput

\* ------------------------------------------------------ stopAudioPipeline
\* mediaStreamRef.current.getTracks().forEach((t) => t.stop())
StopTracks(ps, m) ==
    IF m = Null THEN ps ELSE [ps EXCEPT ![m].tracks = FALSE]

\* processorRef.current.disconnect(); processorRef.current.onaudioprocess = null
Unhook(ps, p) ==
    IF p = Null THEN ps ELSE [ps EXCEPT ![p].handler = FALSE]

\* Whether stopAudioPipeline suspends on audioContextRef.current.close().
\* close() on a context that was already asked to close rejects at once
\* (InvalidStateError), which the try/catch of stopAudioPipeline swallows.
AwaitsClose ==
    audioContextRef # Null /\ pipes[audioContextRef].ctx = "running"

ClearCaptureRefs ==
    /\ processorRef' = Null
    /\ sourceRef' = Null
    /\ audioContextRef' = Null
    /\ mediaStreamRef' = Null

\* stopAudioPipeline from its first line up to its await, or to its end when
\* it does not suspend.
StopAudioPipelineBegin ==
    IF audioContextRef = Null
    THEN /\ pipes' = StopTracks(Unhook(pipes, processorRef), mediaStreamRef)
         /\ ClearCaptureRefs
    ELSE IF AwaitsClose
    THEN /\ pipes' = [Unhook(pipes, processorRef)
                        EXCEPT ![audioContextRef].ctx = "closing"]
         /\ UNCHANGED captureRefs
    ELSE /\ pipes' = Unhook(pipes, processorRef)
         /\ ClearCaptureRefs

\* stopAudioPipeline from the resolution of close() on context c to its end.
StopAudioPipelineEnd(c) ==
    /\ pipes' = StopTracks([pipes EXCEPT ![c].ctx = "closed"], mediaStreamRef)
    /\ ClearCaptureRefs

\* ------------------------------------------------------------------- pump
\* The loop test without the recording flag.
PumpContinuesNoFlag(rec, buf) == buf.len >= chunkSamples

\* while (recordingRef.current && bufferRef.current.length >= chunkSamples)
PumpContinues(rec, buf) == rec /\ buf.len >= chunkSamples

\* bufferRef.current = bufferRef.current.slice(chunkSamples)
SliceChunk(buf) == [off |-> buf.off + chunkSamples, len |-> buf.len - chunkSamples]

\* if (sessionIdRef.current) { await apiPushChunk(...) }
PumpSends(sid) == sid # Null

\* The drain loop from its loop test to its next await or to its exit:
\* the buffer left, the chunks taken, and whether the last one was sent.
RECURSIVE PumpLoop(_, _, _, _)
PumpLoop(rec, sid, buf, taken) ==
    IF PumpContinues(rec, buf)
    THEN IF PumpSends(sid)
         THEN [buf |-> SliceChunk(buf), taken |-> taken + 1, sent |-> TRUE]
         ELSE PumpLoop(rec, sid, SliceChunk(buf), taken + 1)
    ELSE [buf |-> buf, taken |-> taken, sent |-> FALSE]

\* The chunks the loop takes from buf, named by recording and first sample.
Chunks(buf, k) ==
    [n \in 1 .. k |-> [epoch |-> nStarts, off |-> buf.off + (n - 1) * chunkSamples]]

\* The flag left set when the loop exits, as a pump with no finally would.
FlagAfterLoopStuck(sent) == TRUE

\* finally { pushingRef.current = false } when the loop exits; the flag
\* stays set while the loop is suspended on a request.
FlagAfterLoop(sent) == sent

\* pump() entered with pushingRef just set, or resumed after a response:
\* runs the loop on buf while the loops in `others` stay suspended.
RunPump(buf, others) ==
    LET r == PumpLoop(recordingRef, sessionIdRef, buf, 0)
        cs == Chunks(buf, r.taken)
    IN  /\ bufferRef' = r.buf
        /\ extractLog' = extractLog \o cs
        /\ recM' = recM + r.taken
        /\ pushingRef' = FlagAfterLoop(r.sent)
        /\ IF r.sent
           THEN /\ pushLog' = Append(pushLog, [sid |-> sessionIdRef,
                                               chunk |-> cs[r.taken],
                                               alone |-> others = {}])
                /\ pumps' = others \cup {Len(pushLog) + 1}
           ELSE /\ pushLog' = pushLog
                /\ pumps' = others

\* j.text / j.language of a pushChunk response and of a finishSession response
PartialText(k) == <<"partial", pushLog[k].sid, k>>
FinalText(sid) == <<"final", sid>>

\* ---------------------------------------------------------- handleStart
\* if (isRecording) return
StartGuard == ~isRecording

HandleStart ==
    /\ StartGuard
    /\ nStarts < MaxStarts
    /\ nStarts' = nStarts + 1
    /\ transcript' = EmptyText
    /\ language' = EmptyText
    /\ errorMsg' = ""
    /\ bufferRef' = EmptyBuffer(0)
    /\ status' = "recording"
    /\ isRecording' = TRUE
    /\ recordingRef' = TRUE
    /\ starts' = [starts EXCEPT ![nStarts + 1] = [pc |-> "apiStart", ctx |-> Null]]
    /\ recT' = 0
    /\ recM' = 0
    /\ finalResult' = EmptyText
    /\ UNCHANGED <<sessionIdRef, captureRefs, pushingRef, pipes, stops, pumps,
                   nStops, nBlocks, pushLog, extractLog, finishLog>>
    /\ UNCHANGED pureVars

HandleStartIgnored ==
    /\ ~StartGuard
    /\ UNCHANGED vars

\* sessionIdRef.current = await apiStart()   (the server names session i "i")
ApiStartOk(i) ==
    /\ starts[i].pc = "apiStart"
    /\ sessionIdRef' = i
    /\ starts' = [starts EXCEPT ![i].pc = "getUserMedia"]
    /\ UNCHANGED <<reactVars, captureRefs, bufferRef, pushingRef, recordingRef,
                   pipes, stops, pumps, nStarts, nStops, histVars>>
    /\ UNCHANGED pureVars

\* the catch block of handleStart
StartCatch(i) ==
    /\ errorMsg' = "Start failed"
    /\ status' = "error"
    /\ isRecording' = FALSE
    /\ recordingRef' = FALSE
    /\ sessionIdRef' = Null
    /\ StopAudioPipelineBegin
    /\ starts' = [starts EXCEPT ![i] =
                    IF AwaitsClose THEN [pc |-> "awaitClose", ctx |-> audioContextRef]
                    ELSE [pc |-> "failed", ctx |-> Null]]
    /\ UNCHANGED <<transcript, language, bufferRef, pushingRef, stops, pumps,
                   nStarts, nStops, histVars>>
    /\ UNCHANGED pureVars

ApiStartFail(i) ==
    /\ starts[i].pc = "apiStart"
    /\ StartCatch(i)

\* getUserMedia resolves; the rest of the try block runs without an await.
GetUserMediaOk(i, rate) ==
    /\ starts[i].pc = "getUserMedia"
    /\ mediaStreamRef' = i
    /\ audioContextRef' = i
    /\ sourceRef' = i
    /\ processorRef' = i
    /\ pipes' = [pipes EXCEPT ![i] = [ctx |-> "running", handler |-> TRUE,
                                      tracks |-> TRUE, rate |-> rate]]
    /\ starts' = [starts EXCEPT ![i].pc = "done"]
    /\ UNCHANGED <<reactVars, refVars, stops, pumps, nStarts, nStops, histVars>>
    /\ UNCHANGED pureVars

GetUserMediaFail(i) ==
    /\ starts[i].pc = "getUserMedia"
    /\ StartCatch(i)

\* close() resolves for the stopAudioPipeline awaited by handleStart's catch
StartCloseDone(i) ==
    /\ starts[i].pc = "awaitClose"
    /\ StopAudioPipelineEnd(starts[i].ctx)
    /\ starts' = [starts EXCEPT ![i] = [pc |-> "failed", ctx |-> Null]]
    /\ UNCHANGED <<reactVars, refVars, stops, pumps, nStarts, nStops, histVars>>
    /\ UNCHANGED pureVars

\* -------------------------------------------------------- onaudioprocess
\* limit caps the callbacks that append, which the program does not bound.
OnAudioProcessUpTo(p, limit) ==
    /\ pipes[p].handler
    /\ pipes[p].ctx = "running"
    /\ IF ~recordingRef
       THEN UNCHANGED vars
       ELSE LET n == resampleLinearLen(BlockSize, pipes[p].rate, TARGET_SR)
                buf == [off |-> bufferRef.off, len |-> bufferRef.len + n]
            IN  /\ nBlocks < limit
                /\ nBlocks' = nBlocks + 1
                /\ recT' = recT + n
                /\ IF ~pushingRef
                   THEN RunPump(buf, pumps)
                   ELSE /\ bufferRef' = buf
                        /\ UNCHANGED <<pushingRef, pumps, pushLog, extractLog, recM>>
                /\ UNCHANGED <<reactVars, captureRefs, sessionIdRef, recordingRef,
                               pipes, starts, stops, nStarts, nStops, finishLog,
                               finalResult>>
    /\ UNCHANGED pureVars

OnAudioProcess(p) == OnAudioProcessUpTo(p, MaxBlocks)

\* ------------------------------------------------ pump, after its await
PushChunkOk(k) ==
    /\ k \in pumps
    /\ language' = PartialText(k)
    /\ transcript' = PartialText(k)
    /\ RunPump(bufferRef, pumps \ {k})
    /\ UNCHANGED <<isRecording, status, errorMsg, captureRefs, sessionIdRef,
                   recordingRef, pipes, starts, stops, nStarts, nStops, nBlocks,
                   finishLog, recT, finalResult>>
    /\ UNCHANGED pureVars

\* The catch of pump putting the failed chunk back in front of the buffer.
PushChunkFailRequeue(k) ==
    /\ k \in pumps
    /\ errorMsg' = "Backend error"
    /\ status' = "error"
    /\ pushingRef' = FALSE
    /\ pumps' = pumps \ {k}
    /\ bufferRef' = [off |-> bufferRef.off - chunkSamples,
                     len |-> bufferRef.len + chunkSamples]
    /\ UNCHANGED <<isRecording, transcript, language, captureRefs, sessionIdRef,
                   recordingRef, pipes, starts, stops, nStarts, nStops,
                   histVars>>
    /\ UNCHANGED pureVars

PushChunkFail(k) ==
    /\ k \in pumps
    /\ errorMsg' = "Backend error"
    /\ status' = "error"
    /\ pushingRef' = FALSE
    /\ pumps' = pumps \ {k}
    /\ UNCHANGED <<isRecording, transcript, language, captureRefs, sessionIdRef,
                   bufferRef, recordingRef, pipes, starts, stops, nStarts, nStops,
                   histVars>>
    /\ UNCHANGED pureVars

\* ------------------------------------------------------------ handleStop
\* if (!isRecording) return
StopGuard == isRecording

\* finally { sessionIdRef.current = null; bufferRef.current = new Float32Array(0);
\*           pushingRef.current = false }
StopFinally ==
    /\ sessionIdRef' = Null
    /\ bufferRef' = EmptyBuffer(bufferRef.off + bufferRef.len)
    /\ pushingRef' = FALSE

\* handleStop from its try to its await on apiFinish, or to its end when
\* there is no session id; e is the number of starts and from the status
\* when stop was invoked (both history).
StopTry(j, e, from) ==
    IF sessionIdRef # Null
    THEN /\ finishLog' = Append(finishLog, sessionIdRef)
         /\ stops' = [stops EXCEPT ![j] = [pc |-> "awaitFinish", ctx |-> Null,
                                           sid |-> sessionIdRef, epoch |-> e,
                                           from |-> from]]
         /\ UNCHANGED <<status, sessionIdRef, bufferRef, pushingRef>>
    ELSE /\ status' = "idle"
         /\ StopFinally
         /\ stops' = [stops EXCEPT ![j] = [pc |-> "done", ctx |-> Null,
                                           sid |-> Null, epoch |-> e,
                                           from |-> from]]
         /\ UNCHANGED finishLog

HandleStop ==
    /\ StopGuard
    /\ nStops' = nStops + 1
    /\ recordingRef' = FALSE
    /\ isRecording' = FALSE
    /\ StopAudioPipelineBegin
    /\ IF AwaitsClose
       THEN /\ stops' = [stops EXCEPT ![nStops + 1] =
                           [pc |-> "awaitClose", ctx |-> audioContextRef,
                            sid |-> Null, epoch |-> nStarts, from |-> status]]
            /\ UNCHANGED <<status, sessionIdRef, bufferRef, pushingRef, finishLog>>
       ELSE StopTry(nStops + 1, nStarts, status)
    /\ UNCHANGED <<transcript, language, errorMsg, starts, pumps, nStarts,
                   nBlocks, pushLog, extractLog, recT, recM, finalResult>>
    /\ UNCHANGED pureVars

HandleStopIgnored ==
    /\ ~StopGuard
    /\ UNCHANGED vars

\* close() resolves for the stopAudioPipeline awaited by handleStop
StopCloseDone(j) ==
    /\ stops[j].pc = "awaitClose"
    /\ StopAudioPipelineEnd(stops[j].ctx)
    /\ StopTry(j, stops[j].epoch, stops[j].from)
    /\ UNCHANGED <<isRecording, transcript, language, errorMsg, recordingRef,
                   starts, pumps, nStarts, nStops, nBlocks, pushLog, extractLog,
                   recT, recM, finalResult>>
    /\ UNCHANGED pureVars

ApiFinishOk(j) ==
    /\ stops[j].pc = "awaitFinish"
    /\ language' = FinalText(stops[j].sid)
    /\ transcript' = FinalText(stops[j].sid)
    /\ status' = "idle"
    /\ StopFinally
    /\ stops' = [stops EXCEPT ![j].pc = "done"]
    /\ finalResult' = IF stops[j].epoch = nStarts
                      THEN FinalText(stops[j].sid) ELSE finalResult
    /\ UNCHANGED <<isRecording, errorMsg, captureRefs, recordingRef, pipes,
                   starts, pumps, nStarts, nStops, nBlocks, pushLog, extractLog,
                   finishLog, recT, recM>>
    /\ UNCHANGED pureVars

ApiFinishFail(j) ==
    /\ stops[j].pc = "awaitFinish"
    /\ errorMsg' = "Finish failed"
    /\ status' = "error"
    /\ StopFinally
    /\ stops' = [stops EXCEPT ![j].pc = "failed"]
    /\ UNCHANGED <<isRecording, transcript, language, captureRefs, recordingRef,
                   pipes, starts, pumps, nStarts, nStops, histVars>>
    /\ UNCHANGED pureVars

\* ------------------------------------------------------------------ spec
Next ==
    \/ HandleStart
    \/ HandleStartIgnored
    \/ \E i \in StartIds : ApiStartOk(i)
    \/ \E i \in StartIds : ApiStartFail(i)
    \/ \E i \in StartIds, rate \in SampleRates : GetUserMediaOk(i, rate)
    \/ \E i \in StartIds : GetUserMediaFail(i)
    \/ \E i \in StartIds : StartCloseDone(i)
    \/ \E p \in StartIds : OnAudioProcess(p)
    \/ \E k \in pumps : PushChunkOk(k)
    \/ \E k \in pumps : PushChunkFail(k)
    \/ HandleStop
    \/ HandleStopIgnored
    \/ \E j \in StopIds : StopCloseDone(j)
    \/ \E j \in StopIds : ApiFinishOk(j)
    \/ \E j \in StopIds : ApiFinishFail(j)

Spec == Init /\ [][Next]_vars

\* ------------------------------------------- resampleLinear called alone
\* Source rates and input blocks given to resampleLinear: every length up to
\* MaxLen and one capture block, as silence and as a sawtooth whose values are
\* multiples of the target rate, so that the interpolated samples are integers.
ResampleRates == {8000, 16000, 32000, 44100, 48000, 96000}
ResampleLengths == (0 .. MaxLen) \cup {BlockSize}
InputBlock(n, shape) ==
    [k \in 1 .. n |-> IF shape = "silence" THEN 0 ELSE (k % MaxLen) * TARGET_SR]

InitResample ==
    /\ InitApp
    /\ \E n \in ResampleLengths, shape \in {"silence", "sawtooth"}, r \in ResampleRates :
            resInput = [input |-> InputBlock(n, shape), srcSr |-> r]
    /\ resOutput = NoOutput

\* resampleLinear(input, srcSr, TARGET_SR), as onaudioprocess calls it
Resample ==
    /\ ~resOutput.done
    /\ resOutput' = [done |-> TRUE,
                     out |-> resampleLinear(resInput.input, resInput.srcSr, TARGET_SR)]
    /\ UNCHANGED <<appVars, resInput>>

NextResample == Resample

SpecResample == InitResample /\ [][NextResample]_vars

\* --------------------------------------- every pushChunk request succeeds
\* The most pushChunk requests MaxBlocks callbacks can give rise to.
MaxPushes == (MaxBlocks * BlockSize) \div chunkSamples

\* The program with a backend whose pushChunk never fails and always answers:
\* fetch settles every request, and the event loop then resumes the pump
\* awaiting it.
NextLive ==
    \/ HandleStart
    \/ HandleStartIgnored
    \/ \E i \in StartIds : ApiStartOk(i)
    \/ \E i \in StartIds : ApiStartFail(i)
    \/ \E i \in StartIds, rate \in SampleRates : GetUserMediaOk(i, rate)
    \/ \E i \in StartIds : GetUserMediaFail(i)
    \/ \E i \in StartIds : StartCloseDone(i)
    \/ \E p \in StartIds : OnAudioProcess(p)
    \/ \E k \in pumps : PushChunkOk(k)
    \/ HandleStop
    \/ HandleStopIgnored
    \/ \E j \in StopIds : StopCloseDone(j)
    \/ \E j \in StopIds : ApiFinishOk(j)
    \/ \E j \in StopIds : ApiFinishFail(j)

SpecLive ==
    /\ Init
    /\ [][NextLive]_vars
    /\ \A k \in 1 .. MaxPushes : WF_vars(PushChunkOk(k))

\* ------------------------------------- one second of capture, end to end
\* One recording on a source of each rate, every request succeeding, and the
\* capture callbacks that cover 1.0 s of the source: the processor delivers
\* whole blocks of BlockSize samples only.
EndToEndRates == {8000, 16000, 22050, 32000, 44100, 48000, 96000}
BlocksPerSecond(rate) == (rate + BlockSize - 1) \div BlockSize

OnAudioProcessOneSecond(p) == OnAudioProcessUpTo(p, BlocksPerSecond(pipes[p].rate))

NextEndToEnd ==
    \/ HandleStart
    \/ \E i \in StartIds : ApiStartOk(i)
    \/ \E i \in StartIds, rate \in EndToEndRates : GetUserMediaOk(i, rate)
    \/ \E p \in StartIds : OnAudioProcessOneSecond(p)
    \/ \E k \in pumps : PushChunkOk(k)

SpecEndToEnd == Init /\ [][NextEndToEnd]_vars

\* ================================================================ claims
Finished(pc) == pc \in {"done", "failed"}

\* No handleStart and no handleStop is between its first line and its end.
Quiescent ==
    /\ \A i \in StartIds : starts[i].pc \in {"idle", "done", "failed"}
    /\ \A j \in StopIds : stops[j].pc \in {"idle", "done", "failed"}

\* The session is in Error because of a pushChunk failure.
PushFailed == status = "error" /\ errorMsg = "Backend error"

\* Every capture resource is released and the session state is cleared.
TornDown ==
    /\ audioContextRef = Null /\ processorRef = Null
    /\ sourceRef = Null /\ mediaStreamRef = Null
    /\ \A p \in StartIds : ~pipes[p].tracks /\ ~pipes[p].handler
                           /\ pipes[p].ctx # "running"
    /\ ~recordingRef
    /\ bufferRef.len = 0
    /\ sessionIdRef = Null

\* C1: single-flight: in every reachable state at most one pushChunk request
\* is in flight and at most one drain loop of pump() is running (a running
\* loop is, between two events, a loop suspended on its request).
C1_SingleFlight == Cardinality(pumps) <= 1

\* C2: ordered delivery: the pushChunk requests seen at the transport are
\* exactly the extracted chunks in extraction order, and each request was
\* issued when no earlier request was still outstanding.
C2_OrderedDelivery ==
    /\ [k \in 1 .. Len(pushLog) |-> pushLog[k].chunk] = extractLog
    /\ \A k \in 1 .. Len(pushLog) : pushLog[k].alone

\* C3: while the session is in Error because of a pushChunk failure, no
\* chunk is extracted and no pushChunk is issued, whatever callbacks arrive.
C3_FailureHaltsDraining ==
    [][PushFailed => /\ Len(extractLog') = Len(extractLog)
                     /\ Len(pushLog') = Len(pushLog)]_vars

\* C4: when the session is in Error because of a pushChunk failure, start()
\* takes effect: it passes its guard (and then resets transcript, language
\* and buffer and requests a new session).
C4_StartAfterPushFailure == PushFailed => StartGuard

\* C5: once a failure has been handled (status Error, no handler still
\* running) every acquired resource is torn down: capture released, recording
\* flag false, buffer empty, session id cleared; the message is retained.
C5_FailureTearsDown ==
    (status = "error" /\ Quiescent) => (TornDown /\ errorMsg # "")

\* C6: after a stop() that completed with a successful finishSession, and
\* until the next start(), transcript and language are finishSession's result.
C6_FinalTranscript ==
    finalResult # EmptyText =>
        (transcript = finalResult /\ language = finalResult)

\* C7 (as stated): when stop() calls finishSession, no full chunk is left in
\* the buffer: the pump has drained every full chunk buffered at stop() time.
C7_StopDrainsRemaining ==
    [][Len(finishLog') > Len(finishLog) => bufferRef.len < chunkSamples]_vars

\* C7 (amended): once stop() has cleared the recording flag the pump extracts
\* no further chunk; a chunk is only ever extracted while the flag is set.
C7_NoExtractionAfterStop ==
    [][Len(extractLog') > Len(extractLog) => recordingRef]_vars

\* C7 witness: stop() was invoked with a full chunk buffered behind a request
\* in flight; the request completed, the loop exited, the chunk is still there.
C7_Witness ==
    /\ ~recordingRef
    /\ bufferRef.len >= chunkSamples
    /\ pumps = {}
    /\ status = "recording"
    /\ transcript # EmptyText
    /\ \E j \in StopIds : stops[j].pc = "awaitFinish"

\* C8: start() then stop() with zero samples captured: once both have run to
\* their end (the start successfully), no pushChunk was issued and exactly one
\* finishSession was.
C8_ImmediateStop ==
    (/\ nStarts = 1 /\ starts[1].pc = "done"
     /\ Finished(stops[1].pc)
     /\ nBlocks = 0)
        => (Len(pushLog) = 0 /\ Len(finishLog) = 1)

\* C9: a stop() invoked while Recording clears the recording flag; when it
\* completes it has released the capture source and called finishSession
\* once, the session id is cleared, the buffer is empty, and the status is
\* Idle if finishSession succeeded and Error if it failed.
C9_StopOutcome ==
    [][/\ (nStops' = nStops + 1 /\ status = "recording") => ~recordingRef'
       /\ \A j \in StopIds :
            (/\ ~Finished(stops[j].pc) /\ Finished(stops'[j].pc)
             /\ stops'[j].from = "recording")
                => /\ stops'[j].sid # Null
                   /\ sessionIdRef' = Null
                   /\ bufferRef'.len = 0
                   /\ status' = IF stops'[j].pc = "done" THEN "idle" ELSE "error"
      ]_vars

\* C10: buffer conservation within one recording: with T samples appended
\* and M chunks extracted since start(), the buffer holds T - M*C samples and
\* M*C <= T; an extraction needs C samples and removes exactly C.
C10_BufferConservation ==
    [][/\ recordingRef' =>
            /\ bufferRef'.len = recT' - recM' * chunkSamples
            /\ recM' * chunkSamples <= recT'
       /\ Len(extractLog') > Len(extractLog) =>
            /\ bufferRef.len + (recT' - recT) >= chunkSamples
            /\ bufferRef'.len = bufferRef.len + (recT' - recT)
                   - (Len(extractLog') - Len(extractLog)) * chunkSamples
      ]_vars

\* C11: no retry, no re-queueing: no chunk is passed to pushChunk twice, no
\* chunk is extracted twice, and the samples of a chunk extracted in the
\* current recording all lie before the buffer: they are never put back.
C11_NoRetry ==
    /\ \A a, b \in 1 .. Len(pushLog) :
            a # b => pushLog[a].chunk # pushLog[b].chunk
    /\ \A a, b \in 1 .. Len(extractLog) : a # b => extractLog[a] # extractLog[b]
    /\ \A k \in 1 .. Len(extractLog) :
            extractLog[k].epoch = nStarts
                => extractLog[k].off + chunkSamples <= bufferRef.off

\* C11 witness: the first pushChunk of the first recording failed (nothing
\* was ever merged into the transcript) and, after it, the next chunk was
\* extracted and sent.
C11_Witness ==
    /\ nStarts = 1
    /\ PushFailed
    /\ transcript = EmptyText
    /\ Len(pushLog) = 2
    /\ pumps = {2}
    /\ pushLog[2].alone
    /\ pushLog[2].chunk # pushLog[1].chunk

\* C12: the output of resample(input, r, 16000) has round(n * 16000 / r)
\* samples, n the input length: its length L is an integer nearest to
\* n*16000/r, that is |L*r - n*16000| <= r/2; and with r = 16000 the output
\* is the input, unchanged.
C12_ResampleLength ==
    resOutput.done =>
        LET n == Len(resInput.input)
            r == resInput.srcSr
            L == Len(resOutput.out)
        IN  /\ 2 * (L * r - n * TARGET_SR) <= r
            /\ 2 * (n * TARGET_SR - L * r) <= r
            /\ r = TARGET_SR => resOutput.out = resInput.input

\* C12 witness: a capture block of a 44100 Hz source has been resampled.
C12_Witness ==
    /\ resOutput.done
    /\ resInput.srcSr = 44100
    /\ Len(resInput.input) = BlockSize
    /\ Len(resOutput.out) = 1486

\* C13: once the callbacks covering 1.0 s of a 44100 Hz source have been
\* resampled block by block and every request has completed, exactly 16000
\* samples were accumulated and they were drained as exactly two chunks of
\* 8000 samples, sent in order, with nothing left in the buffer.
C13_EndToEnd ==
    (/\ nStarts = 1 /\ pipes[1].rate = 44100
     /\ nBlocks = BlocksPerSecond(44100) /\ pumps = {})
    => /\ recT = TARGET_SR
       /\ Len(pushLog) = 2
       /\ pushLog[1].chunk.off = 0 /\ pushLog[2].chunk.off = chunkSamples
       /\ bufferRef.len = 0

C15_FlagDiscipline ==
    pushingRef <=> pumps # {}

\* C16: with every pushChunk answered successfully, whenever a recording
\* session has a full chunk in its buffer, a further chunk is eventually sent,
\* or the session stops being Recording.
C16_NoLostTrigger ==
    \A n \in 0 .. MaxPushes :
        (/\ recordingRef /\ status = "recording"
         /\ bufferRef.len >= chunkSamples /\ Len(pushLog) = n)
        ~> (Len(pushLog) > n \/ ~recordingRef \/ status # "recording")

\* C16 witness: in one recording, a second full chunk accumulated while the
\* first request was outstanding, and the same loop went on to send it.
C16_Witness ==
    /\ nStarts = 1 /\ nStops = 0
    /\ recordingRef /\ status = "recording"
    /\ nBlocks = MaxBlocks
    /\ Len(pushLog) = 2 /\ pumps = {2}
    /\ pushLog[2].alone
    /\ pushLog[2].chunk.off = chunkSamples

\* C17: every chunk the drain loop removes from the buffer is sent, with the
\* id of the session recording when it was removed: the requests issued are
\* the chunks extracted, one for one and in order, and each carries the id
\* startSession returned to the start() of that recording.
C17_ExtractedIsSent ==
    /\ Len(pushLog) = Len(extractLog)
    /\ \A k \in 1 .. Len(pushLog) :
          /\ pushLog[k].chunk = extractLog[k]
          /\ pushLog[k].sid = extractLog[k].epoch

\* C18: what the page shows belongs to the session that start() last began:
\* transcript and language are empty or come from a response to a request of
\* that session, and no stop() of an earlier session puts the status back to
\* Idle while the new recording is on.
C18_SessionIsolation ==
    /\ transcript # EmptyText => transcript[2] = nStarts
    /\ language # EmptyText => language[2] = nStarts
    /\ isRecording => status # "idle"

\* A capture source is live: its tracks are on, its context is running or
\* its processor callback is installed.
Live(p) == pipes[p].tracks \/ pipes[p].handler \/ pipes[p].ctx = "running"

\* C19: at most one capture source is live at a time, and whenever nothing
\* is recording and no start() or stop() is in progress, none is live and no
\* capture reference is held.
C19_CaptureReleased ==
    /\ Cardinality({p \in StartIds : Live(p)}) <= 1
    /\ (~isRecording /\ Quiescent) =>
          /\ \A p \in StartIds : ~Live(p)
          /\ audioContextRef = Null /\ processorRef = Null
          /\ sourceRef = Null /\ mediaStreamRef = Null

\* C20: whenever a finishSession request is issued, no pushChunk request of
\* the session it finishes is in flight.
C20_FinishAfterPushes ==
    [][Len(finishLog') > Len(finishLog) =>
          \A k \in pumps' : pushLog'[k].sid # finishLog'[Len(finishLog')]]_vars

====
